---- MODULE Spec2Model ----
(***************************************************************************)
(* A model of SourceCode/RandomnessTests.py: the NIST randomness tests of  *)
(* class RandomnessTester, the cross-sample aggregation and reporting of   *)
(* run_test_suite, and the GF(2) rank computation of class BinaryMatrix.   *)
(*                                                                         *)
(* Python indices are kept 0-based as in the source; a TLA+ sequence s     *)
(* holds Python element i at s[i + 1].                                     *)
(***************************************************************************)
EXTENDS Integers, Sequences, FiniteSets, TLC

VARIABLES
    \* ---- BinaryMatrix (class BinaryMatrix) ----
    A,          \* the array object: the caller's matrix, which self.A refers to
    A0,         \* history: the entries of that array when BinaryMatrix was constructed
    bmM,        \* self.M
    bmQ,        \* self.Q
    bmm,        \* self.m
    bi,         \* the loop index i of compute_rank
    bpc,        \* position inside compute_rank
    rank,       \* the value compute_rank returned (None before)
    \* ---- one test function called on one binary string ----
    sequence,   \* the string the tests are called with
    numpy_index,\* what the numpy in use does with a float slice bound
    call,       \* the last call made: the test and its parameters (NoCall before)
    result,     \* what that call did: Return(value) or Raise(exception)
    calls,      \* history: the calls made on the string so far, in order
    \* ---- the loops of non_overlapping_patterns, on the string sequence ----
    scan_pattern,       \* the parameter pattern
    scan_num_blocks,    \* the parameter num_blocks
    scan_counts,        \* pattern_counts, by block index 0 .. num_blocks - 1
    scan_i,             \* the block index i of the for loop
    scan_j,             \* the offset j of the while loop
    matches,            \* history: the positions in bin_data of the hits counted
    examined,           \* history: the positions of bin_data read so far
    scan_pc,            \* position inside non_overlapping_patterns
    \* ---- the aggregation of one list of p-values ----
    agg_in,     \* the list of p-values given to the aggregation
    agg_pc,     \* which of the three steps comes next
    agg_pval,   \* what get_aggregate_pval(agg_in) did
    agg_pass,   \* what get_aggregate_pass(agg_in) returned
    agg_line,   \* the line reported from the two
    \* ---- run_test_suite ----
    suite_block_size,   \* the parameter block_size
    suite_q_size,       \* the parameter q_size
    real_data,          \* self.real_data
    column,             \* how many entries of self.bin.columns the outer loop has taken
    samples_before,     \* history: the samples of the data sets taken before this one
    binary_strings,     \* the samples of the data set being processed
    si,                 \* the index i of the loop being run
    test_pvals,         \* pvals: one list of p-values per test
    pval_strings,       \* one list of printed sample p-values per test
    aggregate_pvals,
    aggregate_pass,
    printed,            \* the lines printed for the data set being processed
    suite_pc,           \* position inside run_test_suite
    raised              \* the exception that ended run_test_suite (None if none)

rankVars == <<A, A0, bmM, bmQ, bmm, bi, bpc, rank>>

scanVars == <<scan_pattern, scan_num_blocks, scan_counts, scan_i, scan_j, matches,
              examined, scan_pc>>

testVars == <<sequence, numpy_index, call, result, calls, scanVars>>

aggVars == <<agg_in, agg_pc, agg_pval, agg_pass, agg_line>>

suiteVars == <<suite_block_size, suite_q_size, real_data, column, samples_before,
               binary_strings, si, test_pvals, pval_strings, aggregate_pvals,
               aggregate_pass, printed, suite_pc, raised>>

vars == <<rankVars, testVars, aggVars, suiteVars>>

None == "None"

(***************************************************************************)
(* Bounds of the model.                                                    *)
(***************************************************************************)
MaxDim == 3         \* square matrices of every dimension 1..MaxDim are enumerated

MaxSeed == 3        \* strings are a seed of MaxSeed characters, repeated

MaxShort == 4       \* string lengths 1..MaxShort, and the lengths of LongLengths

MaxParam == 2       \* block sizes, block counts and matrix dimensions 1..MaxParam

MaxN == 25          \* aggregated lists hold 1..MaxN p-values

MaxOdd == 2         \* of which at most MaxOdd differ from the others

(***************************************************************************)
(* Small helpers.                                                          *)
(***************************************************************************)
Min(a, b) == IF a < b THEN a ELSE b

Max(a, b) == IF a > b THEN a ELSE b

Abs(a) == IF a < 0 THEN 0 - a ELSE a

\* the sum of f[lo] .. f[hi]
RECURSIVE SumRange(_, _, _)
SumRange(f, lo, hi) ==
    IF lo > hi THEN 0
    ELSE IF lo = hi THEN f[lo]
    ELSE LET mid == (lo + hi) \div 2
         IN  SumRange(f, lo, mid) + SumRange(f, mid + 1, hi)

RECURSIVE Pow2(_)
Pow2(k) == IF k <= 0 THEN 1 ELSE 2 * Pow2(k - 1)

(***************************************************************************)
(* Python values.  A float is kept exact: a rational literal, NaN, or the  *)
(* value of a special function of scipy.special / math at an exact         *)
(* argument (the library functions themselves are not re-implemented).     *)
(* A call either returns a value or raises.                                *)
(***************************************************************************)
RECURSIVE GCD(_, _)
GCD(a, b) == IF b = 0 THEN a ELSE GCD(b, a % b)

\* the rational num/den (den > 0) in lowest terms
Rat(num, den) ==
    LET g == GCD(Abs(num), den)
    IN  [of |-> "rat", num |-> num \div g, den |-> den \div g]

\* a float given exactly
Lit(num, den) == [fn |-> "lit", a2 |-> 0, x |-> Rat(num, den)]

NaN == [fn |-> "nan", a2 |-> 0, x |-> Rat(0, 1)]

\* no float
NoValue == [fn |-> "none", a2 |-> 0, x |-> Rat(0, 1)]

\* no call made yet, and its outcome
NoCall == [test |-> "none", args |-> <<>>]

NoResult == [kind |-> "none", val |-> "none"]

Return(v) == [kind |-> "return", val |-> v]

Raise(e) == [kind |-> "raise", val |-> e]

\* the skip sentinel, -1.0
Sentinel == Lit(-1, 1)

\* spc.erfc(x) for a finite x >= 0; x is given by x^2 as a rational, or by the
\* statistic that determines it (a record, x.of naming the test)
erfc(x) == [fn |-> "erfc", a2 |-> 1, x |-> x]

\* spc.gammaincc(a, x) with a = a2 / 2 >= 0 and x >= 0.  xk tells what x is: "rat"
\* (x is a rational), "stat" (a finite x >= 0, given by the statistic that determines
\* it), "inf" or "nan".  a = 0 gives nan at x = 0 and 0.0 above it, nan is
\* propagated, x = inf gives 0.0.
gammaincc(a2, xk, x) ==
    IF xk = "nan" THEN NaN
    ELSE IF a2 = 0 THEN (IF xk = "rat" /\ x.num = 0 THEN NaN ELSE Lit(0, 1))
    ELSE IF xk = "inf" THEN Lit(0, 1)
    ELSE [fn |-> "gammaincc", a2 |-> a2, x |-> x]

\* math.exp(-x) for a finite x >= 0, given by the statistic that determines it
expneg(x) == [fn |-> "expneg", a2 |-> 2, x |-> x]

\* the value is a float in the closed interval [0, 1]
InUnitInterval(v) ==
    \/ v.fn \in {"erfc", "gammaincc", "expneg"}
    \/ v.fn = "lit" /\ 0 <= v.x.num /\ v.x.num <= v.x.den

IsSentinelValue(v) == v.fn = "lit" /\ v.x.num = -1 /\ v.x.den = 1

(***************************************************************************)
(* Binary strings: sequences of characters.                                *)
(***************************************************************************)
Count(s, ch) == Cardinality({i \in 1 .. Len(s) : s[i] = ch})

\* s[start:end], a Python slice with 0 <= start
Slice(s, start, end) ==
    LET e == Min(end, Len(s))
    IN  IF start >= e THEN <<>> ELSE [i \in 1 .. e - start |-> s[start + i]]

IsBinary(s) == \A i \in 1 .. Len(s) : s[i] \in {"0", "1"}

(***************************************************************************)
(* class BinaryMatrix                                                      *)
(***************************************************************************)
At(mat, i, j) == mat[i + 1][j + 1]

\* self.A[j, :] = (self.A[j, :] + self.A[i, :]) % 2
AddRow(mat, j, i) ==
    [mat EXCEPT ![j + 1] = [c \in DOMAIN mat[j + 1] |-> (mat[j + 1][c] + mat[i + 1][c]) % 2]]

\* the forward loop of perform_row_operations: j = i + 1 .. M - 1
RECURSIVE RowOpsDown(_, _, _, _)
RowOpsDown(mat, i, j, MM) ==
    IF j < MM
    THEN RowOpsDown(IF At(mat, j, i) = 1 THEN AddRow(mat, j, i) ELSE mat, i, j + 1, MM)
    ELSE mat

\* the backward loop of perform_row_operations: j = i - 1 .. 0
RECURSIVE RowOpsUp(_, _, _)
RowOpsUp(mat, i, j) ==
    IF j >= 0
    THEN RowOpsUp(IF At(mat, j, i) = 1 THEN AddRow(mat, j, i) ELSE mat, i, j - 1)
    ELSE mat

perform_row_operations(mat, i, forward_elimination, MM) ==
    IF forward_elimination
    THEN RowOpsDown(mat, i, i + 1, MM)
    ELSE RowOpsUp(mat, i, i - 1)

\* temp = copy(A[i, :]); A[i, :] = A[ix, :]; A[ix, :] = temp
swap_rows(mat, i, ix) ==
    [mat EXCEPT ![i + 1] = mat[ix + 1], ![ix + 1] = mat[i + 1]]

\* while index < self.M and self.A[index][i] == 0: index += 1
RECURSIVE SearchDown(_, _, _, _)
SearchDown(mat, i, index, MM) ==
    IF index < MM /\ At(mat, index, i) = 0
    THEN SearchDown(mat, i, index + 1, MM)
    ELSE index

\* while index >= 0 and self.A[index][i] == 0: index -= 1
RECURSIVE SearchUp(_, _, _)
SearchUp(mat, i, index) ==
    IF index >= 0 /\ At(mat, index, i) = 0
    THEN SearchUp(mat, i, index - 1)
    ELSE index

\* find_unit_element_swap that never finds a row to swap
find_unit_element_swap_NoSwap(mat, i, forward_elimination, MM) ==
    [mat |-> mat, row_op |-> 0]

\* returns the matrix after the swap (if any) and row_op
find_unit_element_swap(mat, i, forward_elimination, MM) ==
    IF forward_elimination
    THEN LET index == SearchDown(mat, i, i + 1, MM)
         IN  IF index < MM
             THEN [mat |-> swap_rows(mat, i, index), row_op |-> 1]
             ELSE [mat |-> mat, row_op |-> 0]
    ELSE LET index == SearchUp(mat, i, i - 1)
         IN  IF index >= 0
             THEN [mat |-> swap_rows(mat, i, index), row_op |-> 1]
             ELSE [mat |-> mat, row_op |-> 0]

\* the body of either while loop of compute_rank at index i
EliminateAt(mat, i, forward_elimination, MM) ==
    IF At(mat, i, i) = 1
    THEN perform_row_operations(mat, i, forward_elimination, MM)
    ELSE LET f == find_unit_element_swap(mat, i, forward_elimination, MM)
         IN  IF f.row_op = 1
             THEN perform_row_operations(f.mat, i, forward_elimination, MM)
             ELSE f.mat

AllZeroRow(mat, i, QQ) == \A j \in 0 .. QQ - 1 : At(mat, i, j) # 1

determine_rank(mat, MM, QQ, mm) ==
    mm - Cardinality({i \in 0 .. MM - 1 : AllZeroRow(mat, i, QQ)})

\* i = 0; while i < self.m - 1: ...; i += 1
RECURSIVE ForwardPass(_, _, _, _)
ForwardPass(mat, i, MM, mm) ==
    IF i < mm - 1
    THEN ForwardPass(EliminateAt(mat, i, TRUE, MM), i + 1, MM, mm)
    ELSE mat

\* i = self.m - 1; while i > 0: ...; i -= 1
RECURSIVE BackwardPass(_, _, _)
BackwardPass(mat, i, MM) ==
    IF i > 0
    THEN BackwardPass(EliminateAt(mat, i, FALSE, MM), i - 1, MM)
    ELSE mat

\* BinaryMatrix(matrix, rows, cols).compute_rank(): the array it leaves and the rank
compute_rank(matrix, rows, cols) ==
    LET mm    == Min(rows, cols)
        fwd   == ForwardPass(matrix, 0, rows, mm)
        bwd   == BackwardPass(fwd, mm - 1, rows)
    IN  [mat |-> bwd, rank |-> determine_rank(bwd, rows, cols, mm)]

(***************************************************************************)
(* class RandomnessTester: the tests                                       *)
(***************************************************************************)
\* monobit without math.fabs: the sign of count is kept in the statistic
monobit_NoFabs(bin_data) ==
    LET n     == Len(bin_data)
        zeros == Count(bin_data, "0")
        count == (n - zeros) - zeros
    IN  IF n = 0
        THEN Raise("ZeroDivisionError")
        ELSE Return(erfc(Rat(count * Abs(count), 2 * n)))

\* count -= 1 for '0', count += 1 for every other character
monobit(bin_data) ==
    LET n     == Len(bin_data)
        zeros == Count(bin_data, "0")
        count == (n - zeros) - zeros
    IN  IF n = 0
        THEN Raise("ZeroDivisionError")             \* count / math.sqrt(0)
        ELSE Return(erfc(Rat(count * count, 2 * n)))

\* sum over the blocks of (2 * ones_count - block_size)^2, which is
\* proportion_sum * 4 * block_size^2
BlockDeviationSum(bin_data, block_size, num_blocks) ==
    LET d(i) == 2 * Count(Slice(bin_data, i * block_size, (i + 1) * block_size), "1")
                - block_size
    IN  SumRange([i \in 0 .. num_blocks - 1 |-> d(i) * d(i)], 0, num_blocks - 1)

\* block_frequency with the deviation of the whole sequence in place of the sum
\* over the blocks: chi_squared = (ones - zeros)^2 / n
block_frequency_WholeSequence(bin_data, block_size) ==
    IF block_size = 0
    THEN Raise("ZeroDivisionError")
    ELSE LET n          == Len(bin_data)
             num_blocks == n \div block_size
             count      == 2 * Count(bin_data, "1") - n
         IN  Return(gammaincc(num_blocks, "rat", Rat(count * count, 2 * Max(n, 1))))

block_frequency(bin_data, block_size) ==
    IF block_size = 0
    THEN Raise("ZeroDivisionError")                 \* len(bin_data) / block_size
    ELSE LET num_blocks  == Len(bin_data) \div block_size
             \* chi_squared = 4.0 * block_size * proportion_sum
             chi_squared == Rat(BlockDeviationSum(bin_data, block_size, num_blocks),
                                block_size)
         IN  Return(gammaincc(num_blocks, "rat", Rat(chi_squared.num, 2 * chi_squared.den)))

\* abs(p - 0.5) > tau is evaluated in double precision: where the two sides are
\* equal as reals, p - 0.5 rounds above 2 / sqrt(n) for these (n, ones_count),
\* and for no other with n < 300
BalanceRoundsUp == {<<36, 6>>, <<36, 30>>, <<144, 48>>, <<196, 126>>}

\* abs(ones_count / n - 0.5) > 2 / math.sqrt(n)
FailsBalance(n, ones_count) ==
    LET d == 2 * ones_count - n
    IN  \/ d * d > 16 * n
        \/ <<n, ones_count>> \in BalanceRoundsUp

\* vobs = 1 + the number of i in 1 .. n-1 with bin_data[i] != bin_data[i - 1]
ObservedRuns(bin_data) ==
    1 + Cardinality({i \in 1 .. Len(bin_data) - 1 : bin_data[i + 1] # bin_data[i]})

independent_runs(bin_data) ==
    LET n          == Len(bin_data)
        ones_count == Count(bin_data, "1")
        vobs       == ObservedRuns(bin_data)
        \* num / den = (P / Q) * sqrt(n / 2)
        P          == Abs(vobs * n - 2 * ones_count * (n - ones_count))
        Q          == 2 * ones_count * (n - ones_count)
    IN  IF n = 0
        THEN Raise("ZeroDivisionError")             \* ones_count / n
        ELSE IF FailsBalance(n, ones_count)
        THEN Return(Lit(0, 1))
        ELSE IF Q = 0
        THEN Raise("ZeroDivisionError")             \* num / den with den = 0.0
        ELSE Return(erfc([of |-> "runs", P |-> P, Q |-> Q, n |-> n]))

\* the loop "for j in range(0, m)" over the characters lo .. hi - 1 of block_data,
\* entered with st = <<max_run_count, run_count>>: the pair it leaves.  The positions
\* are split in halves and scanned in order (max_run_count never decreases).
RECURSIVE RunScan(_, _, _, _)
RunScan(block_data, lo, hi, st) ==
    IF hi <= lo
    THEN st
    ELSE IF hi = lo + 1
    THEN IF block_data[lo] = "1"
         THEN <<Max(st[1], st[2] + 1), st[2] + 1>>
         ELSE <<Max(st[1], st[2]), 0>>
    ELSE LET mid   == (lo + hi) \div 2
             left  == RunScan(block_data, lo, mid, st)
             right == RunScan(block_data, mid, hi, left)
         IN  <<Max(left[1], right[1]), right[2]>>

\* the longest run of '1' characters in block_data (runs end at any other character)
MaxRun(block_data, j, run_count, max_run_count) ==
    LET st == RunScan(block_data, j, Len(block_data) + 1, <<max_run_count, run_count>>)
    IN  Max(st[1], st[2])

\* the three parameter sets of longest_runs, selected by len(bin_data) >= 128
\* (pik_values are carried as the decimal literals of the source)
LongestRunsRegime(n) ==
    IF n < 6272
    THEN [k |-> 3, m |-> 8, v_values |-> <<1, 2, 3, 4>>,
          pik_values |-> <<"0.21484375", "0.3671875", "0.23046875", "0.1875">>]
    ELSE IF n < 75000
    THEN [k |-> 5, m |-> 128, v_values |-> <<4, 5, 6, 7, 8, 9>>,
          pik_values |-> <<"0.1174035788", "0.242955959", "0.249363483",
                           "0.17517706", "0.102701071", "0.112398847">>]
    ELSE [k |-> 6, m |-> 10000, v_values |-> <<10, 11, 12, 13, 14, 15, 16>>,
          pik_values |-> <<"0.0882", "0.2092", "0.2483", "0.1933", "0.1208",
                           "0.0675", "0.0727">>]

\* the loop "for j in range(k)" from j on: frequencies[j] += 1 where the longest run
\* of the block is v_values[j]
RECURSIVE CountEqual(_, _, _, _)
CountEqual(frequencies, max_run_count, r, j) ==
    IF j >= r.k
    THEN frequencies
    ELSE CountEqual(IF max_run_count = r.v_values[j + 1]
                    THEN [frequencies EXCEPT ![j] = @ + 1]
                    ELSE frequencies,
                    max_run_count, r, j + 1)

\* the three tests with the loop over j started at 1: a block whose longest run is
\* v_values[0] is counted nowhere
CountBlock_FromOne(frequencies, max_run_count, r) ==
    LET below == IF max_run_count < r.v_values[1]
                 THEN [frequencies EXCEPT ![0] = @ + 1]
                 ELSE frequencies
        equal == CountEqual(below, max_run_count, r, 1)
    IN  IF max_run_count > r.v_values[r.k]
        THEN [equal EXCEPT ![r.k] = @ + 1]
        ELSE equal

\* frequencies after the three tests that follow the inner loop of one block:
\* < v_values[0], == v_values[j] for j in range(k), > v_values[k - 1]
CountBlock(frequencies, max_run_count, r) ==
    LET below == IF max_run_count < r.v_values[1]
                 THEN [frequencies EXCEPT ![0] = @ + 1]
                 ELSE frequencies
        equal == CountEqual(below, max_run_count, r, 0)
    IN  IF max_run_count > r.v_values[r.k]
        THEN [equal EXCEPT ![r.k] = @ + 1]
        ELSE equal

\* the loop "for i in range(num_blocks)" over the blocks lo .. hi - 1, entered with
\* st = <<i, frequencies>>: the pair it leaves.  The blocks are split in halves and
\* taken in order.
RECURSIVE BlockLoop(_, _, _, _, _)
BlockLoop(bin_data, r, lo, hi, st) ==
    IF hi <= lo
    THEN st
    ELSE IF hi = lo + 1
    THEN <<lo + 1,
           CountBlock(st[2], MaxRun(Slice(bin_data, lo * r.m, (lo + 1) * r.m), 1, 0, 0), r)>>
    ELSE LET mid  == (lo + hi) \div 2
             left == BlockLoop(bin_data, r, lo, mid, st)
         IN  IF left[1] = mid
             THEN BlockLoop(bin_data, r, mid, hi, left)
             ELSE left

\* frequencies after all blocks (a function on 0 .. k), from numpy.zeros(k + 1)
LongestRunFrequencies(bin_data, r, num_blocks) ==
    BlockLoop(bin_data, r, 0, num_blocks, <<0, [c \in 0 .. r.k |-> 0]>>)[2]

\* longest_runs with the length test off by one
longest_runs_SkipAt128(bin_data) ==
    IF Len(bin_data) <= 128
    THEN Return(Sentinel)
    ELSE LET r           == LongestRunsRegime(Len(bin_data))
             num_blocks  == Len(bin_data) \div r.m
             frequencies == LongestRunFrequencies(bin_data, r, num_blocks)
         IN  Return(gammaincc(r.k, "stat",
                              [of |-> "longest_runs", frequencies |-> frequencies,
                               num_blocks |-> num_blocks]))

longest_runs(bin_data) ==
    IF Len(bin_data) < 128
    THEN Return(Sentinel)
    ELSE LET r           == LongestRunsRegime(Len(bin_data))
             num_blocks  == Len(bin_data) \div r.m
             frequencies == LongestRunFrequencies(bin_data, r, num_blocks)
         \* chi_squared is determined by frequencies, num_blocks and pik_values
         IN  Return(gammaincc(r.k, "stat",
                              [of |-> "longest_runs", frequencies |-> frequencies,
                               num_blocks |-> num_blocks]))

\* block.reshape((q, q)) of the block im, with 1 where the character is '1'
BlockMatrix(bin_data, q, im) ==
    [r \in 1 .. q |-> [c \in 1 .. q |->
        IF bin_data[im * q * q + (r - 1) * q + c] = "1" THEN 1 ELSE 0]]

\* max_ranks after the blocks 0 .. num_m - 1
MaxRanks(bin_data, q, num_m) ==
    LET rk(im) == compute_rank(BlockMatrix(bin_data, q, im), q, q).rank
        Blocks(P(_)) == Cardinality({im \in 0 .. num_m - 1 : P(rk(im))})
    IN  << Blocks(LAMBDA x : x = q),
           Blocks(LAMBDA x : x # q /\ x = q - 1),
           Blocks(LAMBDA x : x # q /\ x # q - 1) >>

matrix_rank(bin_data, q) ==
    IF q = 0
    THEN Raise("ZeroDivisionError")                 \* n / (q * q)
    ELSE LET num_m == Len(bin_data) \div (q * q)
         IN  IF num_m > 0
             \* chi is determined by max_ranks and num_m (piks are constants)
             THEN Return(expneg([of |-> "matrix_rank",
                                 max_ranks |-> MaxRanks(bin_data, q, num_m),
                                 num_m |-> num_m]))
             ELSE Return(Sentinel)

\* plus_minus_one: -1 for '0', 1 for '1', nothing for any other character
PlusMinusOne(bin_data) ==
    LET kept == SelectSeq(bin_data, LAMBDA ch : ch \in {"0", "1"})
    IN  [i \in 1 .. Len(kept) |-> IF kept[i] = "0" THEN -1 ELSE 1]

\* s[0:n / 2] slices a numpy array with a float bound (n / 2 is true division):
\* numpy from 1.12 on raises TypeError, the numpy releases before it truncate the
\* bound to an integer.  float_index says which numpy runs the code.
spectral(bin_data, float_index) ==
    LET n == Len(bin_data)
        plus_minus_one == PlusMinusOne(bin_data)
    IN  IF Len(plus_minus_one) = 0
        THEN Raise("ValueError")                    \* sff.fft([])
        ELSE IF float_index = "TypeError"
        THEN Raise("TypeError")
        \* d is determined by n, the transformed values and the magnitudes kept
        ELSE Return(erfc([of |-> "spectral", n |-> n, plus_minus_one |-> plus_minus_one,
                          kept |-> Min(n \div 2, Len(plus_minus_one))]))

\* the while loop of the template tests over the positions lo .. hi - 1 of one
\* block, entered with the loop variable at j >= lo: <<hits, j after them>>, a hit
\* advancing j by step_on_hit and a miss by 1.  The positions are split in halves
\* and scanned in order.
RECURSIVE PatternScan(_, _, _, _, _, _)
PatternScan(block_data, pattern, j, lo, hi, step_on_hit) ==
    IF hi <= lo
    THEN <<0, j>>
    ELSE IF hi = lo + 1
    THEN IF j # lo
         THEN <<0, j>>
         ELSE IF Slice(block_data, j, j + Len(pattern)) = pattern
         THEN <<1, j + step_on_hit>>
         ELSE <<0, j + 1>>
    ELSE LET mid   == (lo + hi) \div 2
             left  == PatternScan(block_data, pattern, j, lo, mid, step_on_hit)
             right == PatternScan(block_data, pattern, left[2], mid, hi, step_on_hit)
         IN  <<left[1] + right[1], right[2]>>

\* the number of hits of the while loop "while j < block_size" started at j
PatternHits(block_data, pattern, block_size, j, step_on_hit) ==
    PatternScan(block_data, pattern, j, j, block_size, step_on_hit)[1]

\* pattern_counts of non_overlapping_patterns (a function on 0 .. num_blocks - 1)
NonOverlappingCounts(bin_data, pattern, num_blocks, block_size) ==
    [i \in 0 .. num_blocks - 1 |->
        PatternHits(Slice(bin_data, i * block_size, i * block_size + block_size),
                    pattern, block_size, 0, Len(pattern))]

SumSquares(f, hi, shift) ==
    SumRange([i \in 0 .. hi |-> (f[i] - shift) * (f[i] - shift)], 0, hi)

\* the p-value computed from pattern_counts, after the loops
NonOverlappingPValue(counts, pattern_size, block_size, num_blocks) ==
    LET two_m == Pow2(pattern_size)
        \* mean = mean_num / 2^m,  var = var_num / 2^(2m)
        mean_num == block_size - pattern_size + 1
        var_num  == block_size * (two_m - (2 * pattern_size - 1))
        \* sum of (pattern_counts[i] * 2^m - mean_num)^2, i.e. chi_squared * var_num
        dev == SumSquares([i \in 0 .. num_blocks - 1 |-> counts[i] * two_m],
                          num_blocks - 1, mean_num)
    IN  IF var_num = 0
        \* a numpy float divided by 0.0: nan for 0 / 0, inf otherwise
        THEN Return(gammaincc(num_blocks, IF dev = 0 THEN "nan" ELSE "inf", Rat(0, 1)))
        ELSE Return(gammaincc(num_blocks, "rat", Rat(dev, 2 * var_num)))

\* pattern is not empty (an empty pattern never leaves the while loop)
non_overlapping_patterns(bin_data, pattern, num_blocks) ==
    IF num_blocks = 0
    THEN Raise("ZeroDivisionError")                 \* n / num_blocks
    ELSE LET block_size == Len(bin_data) \div num_blocks
         IN  NonOverlappingPValue(
                 NonOverlappingCounts(bin_data, pattern, num_blocks, block_size),
                 Len(pattern), block_size, num_blocks)

\* pattern_counts of overlapping_patterns (a function on 0 .. 5): a block with
\* pattern_count hits increments entry pattern_count, or entry 5 above 4
OverlappingCounts(bin_data, pattern, block_size, num_blocks) ==
    LET pattern_count(i) ==
            PatternHits(Slice(bin_data, i * block_size, i * block_size + block_size),
                        pattern, block_size, 0, 1)
    IN  [c \in 0 .. 5 |->
            Cardinality({i \in 0 .. num_blocks - 1 :
                            IF pattern_count(i) <= 4 THEN c = pattern_count(i) ELSE c = 5})]

\* for 1 <= pattern_size <= block_size, where lambda_val > 0 and every piks[i] > 0
overlapping_patterns(bin_data, pattern_size, block_size) ==
    IF block_size = 0
    THEN Raise("ZeroDivisionError")                 \* n / block_size
    ELSE LET pattern    == [i \in 1 .. pattern_size |-> "1"]
             num_blocks == Len(bin_data) \div block_size
             pattern_counts == OverlappingCounts(bin_data, pattern, block_size, num_blocks)
         IN  IF num_blocks = 0
             \* every term is 0.0 / 0.0 of numpy floats: chi_squared is nan
             THEN Return(gammaincc(5, "nan", Rat(0, 1)))
             \* chi_squared is determined by the counts, num_blocks and the two sizes
             ELSE Return(gammaincc(5, "stat",
                                   [of |-> "overlapping_patterns",
                                    pattern_counts |-> pattern_counts,
                                    num_blocks |-> num_blocks,
                                    pattern_size |-> pattern_size,
                                    block_size |-> block_size]))

\* the data of test_binary_matrix, reshaped (6, 6)
TestMatrix ==
    << <<1, 0, 0, 0, 0, 0>>,
       <<0, 0, 0, 0, 0, 1>>,
       <<1, 0, 0, 0, 0, 1>>,
       <<1, 0, 1, 0, 1, 0>>,
       <<0, 0, 1, 0, 1, 1>>,
       <<0, 0, 0, 0, 1, 0>> >>

SquareMatrices(d) == [1 .. d -> [1 .. d -> {0, 1}]]

(***************************************************************************)
(* Comparing p-values with constants.  A value of erfc, gammaincc or exp   *)
(* is Q(a, x), the regularized upper incomplete gamma function, which      *)
(* decreases in x: erfc(x) = Q(1/2, x^2) and exp(-x) = Q(1, x).  Q(a, x)   *)
(* is compared with t through the table of the x where Q(a, x) = t, in     *)
(* thousandths.  This is defined for the statistics of the battery on      *)
(* strings whose length divides 16 (the cosines of the transform are       *)
(* tabulated for 16 points).                                               *)
(***************************************************************************)
\* 1000 * x with Q(a2 / 2, x) = t, for t = 0.001, 0.1, 0.2, ..., 0.9 and a2 = 1 .. 16
GammainccInv ==
    << <<5414, 1353, 821, 537, 354, 227, 137, 74, 32, 8>>,
       <<6908, 2303, 1609, 1204, 916, 693, 511, 357, 223, 105>>,
       <<8133, 3126, 2321, 1832, 1473, 1183, 935, 712, 503, 292>>,
       <<9233, 3890, 2994, 2439, 2022, 1678, 1376, 1097, 824, 532>>,
       <<10258, 4618, 3645, 3032, 2566, 2176, 1828, 1500, 1171, 805>>,
       <<11229, 5322, 4279, 3616, 3105, 2674, 2285, 1914, 1535, 1102>>,
       <<12161, 6009, 4902, 4192, 3642, 3173, 2747, 2336, 1911, 1417>>,
       <<13062, 6681, 5515, 4762, 4175, 3672, 3211, 2764, 2297, 1745>>,
       <<13939, 7342, 6121, 5328, 4707, 4171, 3679, 3197, 2690, 2084>>,
       <<14794, 7994, 6721, 5890, 5237, 4671, 4148, 3634, 3090, 2433>>,
       <<15632, 8638, 7316, 6449, 5765, 5170, 4619, 4074, 3494, 2789>>,
       <<16455, 9275, 7906, 7006, 6292, 5670, 5091, 4517, 3904, 3152>>,
       <<17264, 9906, 8492, 7559, 6818, 6170, 5565, 4963, 4317, 3521>>,
       <<18062, 10532, 9075, 8111, 7343, 6670, 6039, 5411, 4734, 3895>>,
       <<18849, 11154, 9655, 8661, 7867, 7169, 6515, 5861, 5153, 4273>>,
       <<19626, 11771, 10233, 9209, 8390, 7669, 6991, 6312, 5576, 4656>> >>

\* 1000 * cos(2 * pi * r / 16) for r = 0 .. 4
CosTable == <<1000, 924, 707, 383, 0>>

\* 1000 * cos(2 * pi * r / 16) for every integer r
Cos16(r) ==
    LET m == r % 16
        h == IF m > 8 THEN 16 - m ELSE m
    IN  IF h <= 4 THEN CosTable[h + 1] ELSE 0 - CosTable[8 - h + 1]

\* 10^6 * |s[k]|^2 for s = sff.fft(plus_minus_one), len(plus_minus_one) dividing 16
ModulusSquared(plus_minus_one, k) ==
    LET len  == Len(plus_minus_one)
        step == 16 \div len
        re   == SumRange([j \in 0 .. len - 1 |->
                             plus_minus_one[j + 1] * Cos16(k * j * step)], 0, len - 1)
        im   == SumRange([j \in 0 .. len - 1 |->
                             plus_minus_one[j + 1] * Cos16(k * j * step + 4)], 0, len - 1)
    IN  re * re + im * im

\* count_n1 of spectral: the magnitudes, among those kept, below
\* tau = sqrt(log(1 / 0.05) * n), log(20) = 2.995732
SpectralCount(st) ==
    Cardinality({k \in 0 .. st.kept - 1 :
                    ModulusSquared(st.plus_minus_one, k) < 2995732 * st.n})

\* 1000 * chi of matrix_rank; piks = [0.2888, 0.5776, 0.1336], in thousandths
PiksMilli == <<289, 578, 134>>

MatrixRankChi(st) ==
    SumRange([i \in 1 .. 3 |->
                 LET d == 1000 * st.max_ranks[i] - PiksMilli[i] * st.num_m
                 IN  (d * d) \div (PiksMilli[i] * st.num_m)], 1, 3)

\* 1000 * x of the value Q(a2 / 2, x), rounded down
XMilli(v) ==
    CASE v.x.of = "rat" -> (1000 * v.x.num) \div v.x.den
      [] v.x.of = "runs" ->
            \* erfc(num / den): x = (num / den)^2 = (P / Q)^2 * n / 2
            (1000 * v.x.P * v.x.P * v.x.n) \div (2 * v.x.Q * v.x.Q)
      [] v.x.of = "spectral" ->
            \* erfc(|d| / sqrt(2)): x = d^2 / 2 = (40 * count_n1 - 19 * n)^2 / (38 * n)
            LET e == 40 * SpectralCount(v.x) - 19 * v.x.n
            IN  (1000 * e * e) \div (38 * v.x.n)
      [] v.x.of = "matrix_rank" ->
            \* exp(-chi / 2)
            MatrixRankChi(v.x) \div 2

\* p >= num / den for a float p that is not nan, num / den being 0.001 or i / 10
\* (column 1 of the table is t = 0.001, column i + 1 is t = i / 10)
AtLeast(v, num, den) ==
    IF v.fn = "lit"
    THEN v.x.num * den >= num * v.x.den
    ELSE XMilli(v) <= GammainccInv[v.a2][IF 1000 * num = den THEN 1
                                         ELSE (10 * num) \div den + 1]

\* GreaterThan with >= in place of >
GreaterThan_OrEqual(v, num, den) ==
    IF v.fn = "lit"
    THEN v.x.num * den >= num * v.x.den
    ELSE AtLeast(v, num, den)

\* p > num / den; a value of a special function equals num / den for no statistic
GreaterThan(v, num, den) ==
    IF v.fn = "lit"
    THEN v.x.num * den > num * v.x.den
    ELSE AtLeast(v, num, den)

\* the number of i in 1 .. 9 with Q(a, x) >= i / 10, for x given in thousandths;
\* the thresholds of a row decrease
TenthsReached(x_milli, row) ==
    IF x_milli <= row[10] THEN 9
    ELSE IF x_milli <= row[9] THEN 8
    ELSE IF x_milli <= row[8] THEN 7
    ELSE IF x_milli <= row[7] THEN 6
    ELSE IF x_milli <= row[6] THEN 5
    ELSE IF x_milli <= row[5] THEN 4
    ELSE IF x_milli <= row[4] THEN 3
    ELSE IF x_milli <= row[3] THEN 2
    ELSE IF x_milli <= row[2] THEN 1
    ELSE 0

\* int(math.floor(p * 10)) for a float p that is not nan
Floor10(v) ==
    IF v.fn = "lit"
    THEN (10 * v.x.num) \div v.x.den
    ELSE LET x_milli == XMilli(v)
         IN  IF x_milli = 0
             THEN 10                                    \* Q(a, 0) = 1.0
             ELSE TenthsReached(x_milli, GammainccInv[v.a2])

(***************************************************************************)
(* class RandomnessTester: aggregation over the samples of a data set      *)
(***************************************************************************)
\* self.condition = 0.001, as the fraction ConditionNum / ConditionDen
ConditionNum == 1

ConditionDen == 1000

IsNaN(v) == v.fn = "nan"

\* BinCounts without the clamp of pos to 9
BinCounts_NoClamp(pvals) ==
    LET pos   == [j \in 1 .. Len(pvals) |-> Floor10(pvals[j])]
        index == [j \in 1 .. Len(pvals) |-> IF pos[j] < 0 THEN pos[j] + 10 ELSE pos[j]]
    IN  [b \in 0 .. 9 |-> Cardinality({j \in 1 .. Len(pvals) : index[j] = b})]

\* the loop "for p in pvals" from entry j on, entered with bin_counts (a function on
\* 0 .. 9); a negative pos indexes the numpy array from its end
RECURSIVE BinLoop(_, _, _)
BinLoop(pvals, j, bin_counts) ==
    IF j > Len(pvals)
    THEN bin_counts
    ELSE LET pos   == Min(Floor10(pvals[j]), 9)
             index == IF pos < 0 THEN pos + 10 ELSE pos
         IN  BinLoop(pvals, j + 1, [bin_counts EXCEPT ![index] = @ + 1])

\* bin_counts after the loop over pvals, from numpy.zeros(10)
BinCounts(pvals) == BinLoop(pvals, 1, [b \in 0 .. 9 |-> 0])

get_aggregate_pval(pvals) ==
    IF \E j \in 1 .. Len(pvals) : IsNaN(pvals[j])
    THEN Raise("ValueError")                        \* math.floor(nan)
    ELSE IF \E j \in 1 .. Len(pvals) : pvals[j].fn = "lit" /\ Floor10(pvals[j]) < -10
    THEN Raise("IndexError")
    ELSE IF Len(pvals) = 0
    THEN Return(NaN)                                \* numpy 0.0 / 0.0
    ELSE LET bin_counts == BinCounts(pvals)
             count == Len(pvals)
             \* expected_count = count / 10; the sum below is chi_squared * 10 * count
             dev == SumRange([b \in 0 .. 9 |-> (10 * bin_counts[b] - count)
                                                * (10 * bin_counts[b] - count)], 0, 9)
         IN  Return(gammaincc(9, "rat", Rat(dev, 20 * count)))

\* (npvals > self.condition).sum() / len(pvals); nan > 0.001 is False
get_aggregate_pass(pvals) ==
    LET passing == {j \in 1 .. Len(pvals) :
                       ~IsNaN(pvals[j]) /\ GreaterThan(pvals[j], ConditionNum, ConditionDen)}
    IN  IF Len(pvals) = 0
        THEN NaN                                    \* numpy 0 / 0
        ELSE Lit(Cardinality(passing), Len(pvals))

\* get_string(p_val): the colour the sample's p-value is printed in
get_string(p_val) ==
    IF ~IsNaN(p_val) /\ (p_val.fn = "lit" => p_val.x.num >= 0)
    THEN IF ~AtLeast(p_val, ConditionNum, ConditionDen)
         THEN [colour |-> "Fail", value |-> p_val]
         ELSE [colour |-> "Pass", value |-> p_val]
    ELSE [colour |-> "none", value |-> p_val]

\* the pass threshold 0.96 of run_test_suite, as the fraction PassNum / PassDen
PassNum == 96

PassDen == 100

\* (numpy.array(pvals) == -1.0).sum() > 0
AnySkipped(pvals) == \E j \in 1 .. Len(pvals) : IsSentinelValue(pvals[j])

NoLine == [pass_string |-> "none", pval_string |-> "none", shown |-> NoValue]

\* ReportLine without the override of pass_string by SKIP
ReportLine_NoSkip(pvals, pass_i, pval_i) ==
    [pass_string |->
        IF ~IsNaN(pass_i) /\ AtLeast(pass_i, PassNum, PassDen)
        THEN "PASS!"
        ELSE "FAIL!",
     pval_string |->
        IF AnySkipped(pvals) THEN "p=SKIPPED"
        ELSE IF ~IsNaN(pval_i) /\ GreaterThan(pval_i, ConditionNum, ConditionDen)
        THEN "Pass"
        ELSE "Fail",
     shown |-> IF AnySkipped(pvals) THEN NoValue ELSE pval_i]

\* ReportLine with the pass threshold compared by > in place of >=
ReportLine_StrictPass(pvals, pass_i, pval_i) ==
    [pass_string |->
        IF AnySkipped(pvals) THEN "SKIP!"
        ELSE IF ~IsNaN(pass_i) /\ GreaterThan(pass_i, PassNum, PassDen)
        THEN "PASS!"
        ELSE "FAIL!",
     pval_string |->
        IF AnySkipped(pvals) THEN "p=SKIPPED"
        ELSE IF ~IsNaN(pval_i)
                /\ GreaterThan(pval_i, ConditionNum, ConditionDen)
        THEN "Pass"
        ELSE "Fail",
     shown |-> IF AnySkipped(pvals) THEN NoValue ELSE pval_i]

\* the line run_test_suite prints for one test: pass_string, and pval_string as
\* its colour and the number it shows ("p=SKIPPED" shows none)
ReportLine(pvals, pass_i, pval_i) ==
    [pass_string |->
        IF AnySkipped(pvals) THEN "SKIP!"
        ELSE IF ~IsNaN(pass_i) /\ AtLeast(pass_i, PassNum, PassDen)
        THEN "PASS!"
        ELSE "FAIL!",
     pval_string |->
        IF AnySkipped(pvals) THEN "p=SKIPPED"
        ELSE IF ~IsNaN(pval_i)
                /\ GreaterThan(pval_i, ConditionNum, ConditionDen)
        THEN "Pass"
        ELSE "Fail",
     shown |-> IF AnySkipped(pvals) THEN NoValue ELSE pval_i]

(***************************************************************************)
(* The specifications.  Each drives one part of the program; the variables *)
(* of the other parts stay idle.                                           *)
(***************************************************************************)
RankIdle ==
    /\ A = <<>>
    /\ A0 = <<>>
    /\ bmM = 0
    /\ bmQ = 0
    /\ bmm = 0
    /\ bi = 0
    /\ bpc = "idle"
    /\ rank = None

AggIdle ==
    /\ agg_in = <<>>
    /\ agg_pc = "idle"
    /\ agg_pval = NoResult
    /\ agg_pass = NoValue
    /\ agg_line = NoLine

ScanIdle ==
    /\ scan_pattern = <<>>
    /\ scan_num_blocks = 0
    /\ scan_counts = <<>>
    /\ scan_i = 0
    /\ scan_j = 0
    /\ matches = {}
    /\ examined = {}
    /\ scan_pc = "idle"

TestsIdle ==
    /\ sequence = <<>>
    /\ numpy_index = None
    /\ call = NoCall
    /\ result = NoResult
    /\ calls = <<>>
    /\ ScanIdle

\* pvals = [[], [], [], [], [], [], [], []] and pval_strings, by test index 0 .. 7
EmptyLists == [t \in 0 .. 7 |-> <<>>]

SuiteIdle ==
    /\ suite_block_size = 0
    /\ suite_q_size = 0
    /\ real_data = FALSE
    /\ column = 0
    /\ samples_before = 0
    /\ binary_strings = <<>>
    /\ si = 0
    /\ test_pvals = EmptyLists
    /\ pval_strings = EmptyLists
    /\ aggregate_pvals = <<>>
    /\ aggregate_pass = <<>>
    /\ printed = <<>>
    /\ suite_pc = "idle"
    /\ raised = None

(***************************************************************************)
(* BinaryMatrix.compute_rank, one loop iteration at a time.                *)
(***************************************************************************)
\* BinaryMatrix.__init__(matrix, rows, cols) followed by the entry of compute_rank
RankInit ==
    /\ SuiteIdle
    /\ TestsIdle
    /\ AggIdle
    /\ A \in {TestMatrix} \cup UNION {SquareMatrices(d) : d \in 1 .. MaxDim}
    /\ A0 = A
    /\ bmM = Len(A)
    /\ bmQ = Len(A)
    /\ bmm = Min(bmM, bmQ)
    /\ bi = 0
    /\ bpc = "forward"
    /\ rank = None

\* one iteration of the first while loop of compute_rank
ForwardStep ==
    /\ bpc = "forward"
    /\ bi < bmm - 1
    /\ A' = EliminateAt(A, bi, TRUE, bmM)
    /\ bi' = bi + 1
    /\ UNCHANGED <<A0, bmM, bmQ, bmm, bpc, rank, testVars, aggVars, suiteVars>>

\* the first loop ends: i = self.m - 1
ForwardDone ==
    /\ bpc = "forward"
    /\ ~(bi < bmm - 1)
    /\ bi' = bmm - 1
    /\ bpc' = "backward"
    /\ UNCHANGED <<A, A0, bmM, bmQ, bmm, rank, testVars, aggVars, suiteVars>>

\* one iteration of the second while loop of compute_rank
BackwardStep ==
    /\ bpc = "backward"
    /\ bi > 0
    /\ A' = EliminateAt(A, bi, FALSE, bmM)
    /\ bi' = bi - 1
    /\ UNCHANGED <<A0, bmM, bmQ, bmm, bpc, rank, testVars, aggVars, suiteVars>>

\* the second loop ends: return self.determine_rank()
ReturnRank ==
    /\ bpc = "backward"
    /\ ~(bi > 0)
    /\ rank' = determine_rank(A, bmM, bmQ, bmm)
    /\ bpc' = "done"
    /\ UNCHANGED <<A, A0, bmM, bmQ, bmm, bi, testVars, aggVars, suiteVars>>

RankNext == ForwardStep \/ ForwardDone \/ BackwardStep \/ ReturnRank

SpecRank == RankInit /\ [][RankNext]_vars

(***************************************************************************)
(* The tests as functions of a binary string: each action is one call of   *)
(* one test, with its parameters, on the string chosen initially.          *)
(***************************************************************************)
BinarySeeds == [1 .. MaxSeed -> {"0", "1"}]

\* 'x' stands for any character other than 0 and 1
Seeds == BinarySeeds \cup {[seed EXCEPT ![i] = "x"] : seed \in BinarySeeds, i \in 1 .. MaxSeed}

Repeat(seed, n) == [i \in 1 .. n |-> seed[((i - 1) % Len(seed)) + 1]]

\* lengths around the thresholds of the tests: 16 and 36 (the balance condition of
\* independent_runs), 128 (longest_runs, the default block size)
LongLengths == {16, 17, 36, 127, 128, 129}

Lengths == (1 .. MaxShort) \cup LongLengths

\* 36 bits with 6 and with 30 ones: (2 * ones - n)^2 = 16 * n
BalanceEdgeStrings ==
    {Repeat(<<"0", "0", "0", "0", "0", "1">>, 36), Repeat(<<"1", "1", "1", "1", "1", "0">>, 36)}

Strings == {Repeat(seed, n) : seed \in Seeds, n \in Lengths} \cup BalanceEdgeStrings

BlockSizes == (1 .. MaxParam) \cup {128}            \* 128: the default block_size

MatrixSizes == (1 .. MaxParam) \cup {32}            \* 32: the default q

Patterns == {<<"1">>, <<"0", "1">>,
             <<"1", "1", "1", "1", "0", "0", "0", "0">>,            \* run_test_suite
             <<"0", "0", "0", "0", "0", "0", "0", "0", "1">>}      \* the default

BlockCounts == (1 .. MaxParam) \cup {8}             \* 8: the default num_blocks

\* (pattern_size, block_size) with 1 <= pattern_size <= block_size; the default
OverlappingSizes ==
    {<<ps, bs>> \in (1 .. MaxParam) \X (1 .. MaxParam + 1) : ps <= bs} \cup {<<9, 1032>>}

TestsInit ==
    /\ SuiteIdle
    /\ RankIdle
    /\ AggIdle
    /\ sequence \in Strings
    /\ numpy_index \in {"TypeError", "truncate"}
    /\ call = NoCall
    /\ result = NoResult
    /\ calls = <<>>
    /\ ScanIdle

\* one call per string: the tests keep no state between calls
Called(test, args, r) ==
    /\ call.test = "none"
    /\ call' = [test |-> test, args |-> args]
    /\ result' = r
    /\ UNCHANGED <<sequence, numpy_index, calls, scanVars, rankVars, aggVars, suiteVars>>

CallMonobit == Called("monobit", <<>>, monobit(sequence))

CallBlockFrequency ==
    \E block_size \in BlockSizes :
        Called("block_frequency", <<block_size>>, block_frequency(sequence, block_size))

CallIndependentRuns == Called("independent_runs", <<>>, independent_runs(sequence))

CallLongestRuns == Called("longest_runs", <<>>, longest_runs(sequence))

CallMatrixRank ==
    \E q \in MatrixSizes : Called("matrix_rank", <<q>>, matrix_rank(sequence, q))

CallSpectral == Called("spectral", <<>>, spectral(sequence, numpy_index))

CallNonOverlappingPatterns ==
    \E pattern \in Patterns, num_blocks \in BlockCounts :
        Called("non_overlapping_patterns", <<Len(pattern), num_blocks>>,
               non_overlapping_patterns(sequence, pattern, num_blocks))

CallOverlappingPatterns ==
    \E sz \in OverlappingSizes :
        Called("overlapping_patterns", sz, overlapping_patterns(sequence, sz[1], sz[2]))

TestsNext ==
    \/ CallMonobit
    \/ CallBlockFrequency
    \/ CallIndependentRuns
    \/ CallLongestRuns
    \/ CallMatrixRank
    \/ CallSpectral
    \/ CallNonOverlappingPatterns
    \/ CallOverlappingPatterns

SpecTests == TestsInit /\ [][TestsNext]_vars

(***************************************************************************)
(* Several calls on one string, one after the other: each action is one    *)
(* call of one test, made after the calls recorded in calls.               *)
(***************************************************************************)
MaxCalls == 3

\* 4 bits whose 2 x 2 block the elimination changes, 16 bits, 128 bits
CallStrings == {<<"1", "1", "1", "0">>,
                Repeat(<<"0", "1", "1", "0", "1", "0", "0", "1">>, 16),
                Repeat(<<"1", "1", "1", "0", "0", "1", "0">>, 128)}

\* the string after matrix_rank, had compute_rank worked on the string's own storage:
\* every whole block holds the entries the elimination leaves
InputAfterCall_Eliminated(test, args, bin_data) ==
    IF test = "matrix_rank"
    THEN LET q        == args[1]
             num_m    == Len(bin_data) \div (q * q)
             left     == [im \in 0 .. num_m - 1 |->
                             compute_rank(BlockMatrix(bin_data, q, im), q, q).mat]
         IN  [p \in 1 .. Len(bin_data) |->
                 IF p <= num_m * q * q
                 THEN LET im  == (p - 1) \div (q * q)
                          off == (p - 1) % (q * q)
                      IN  IF left[im][(off \div q) + 1][(off % q) + 1] = 1
                          THEN "1" ELSE "0"
                 ELSE bin_data[p]]
    ELSE bin_data

\* bin_data after a call. A str cannot be changed; the tests assign no field of self;
\* matrix_rank copies each block into a new array (numpy.zeros) before BinaryMatrix
\* eliminates in it, and the other tests only read and slice bin_data.
InputAfterCall(test, args, bin_data) == bin_data

CallsInit ==
    /\ SuiteIdle
    /\ RankIdle
    /\ AggIdle
    /\ sequence \in CallStrings
    /\ numpy_index \in {"TypeError", "truncate"}
    /\ call = NoCall
    /\ result = NoResult
    /\ calls = <<>>
    /\ ScanIdle

Invoked(test, args, r) ==
    /\ Len(calls) < MaxCalls
    /\ call' = [test |-> test, args |-> args]
    /\ result' = r
    /\ calls' = Append(calls, [test |-> test, args |-> args,
                               input |-> sequence, outcome |-> r])
    /\ sequence' = InputAfterCall(test, args, sequence)
    /\ UNCHANGED <<numpy_index, scanVars, rankVars, aggVars, suiteVars>>

InvokeMonobit == Invoked("monobit", <<>>, monobit(sequence))

InvokeBlockFrequency ==
    Invoked("block_frequency", <<2>>, block_frequency(sequence, 2))

InvokeIndependentRuns == Invoked("independent_runs", <<>>, independent_runs(sequence))

InvokeLongestRuns == Invoked("longest_runs", <<>>, longest_runs(sequence))

InvokeMatrixRank ==
    \E q \in {2, 3} : Invoked("matrix_rank", <<q>>, matrix_rank(sequence, q))

InvokeSpectral == Invoked("spectral", <<>>, spectral(sequence, numpy_index))

InvokeNonOverlappingPatterns ==
    Invoked("non_overlapping_patterns", <<2, 2>>,
            non_overlapping_patterns(sequence, <<"0", "1">>, 2))

InvokeOverlappingPatterns ==
    Invoked("overlapping_patterns", <<2, 4>>, overlapping_patterns(sequence, 2, 4))

CallsNext ==
    \/ InvokeMonobit
    \/ InvokeBlockFrequency
    \/ InvokeIndependentRuns
    \/ InvokeLongestRuns
    \/ InvokeMatrixRank
    \/ InvokeSpectral
    \/ InvokeNonOverlappingPatterns
    \/ InvokeOverlappingPatterns

SpecCalls == CallsInit /\ [][CallsNext]_vars

(***************************************************************************)
(* non_overlapping_patterns, loop iteration by loop iteration, on every    *)
(* binary string of 1 .. MaxScanLen bits.                                  *)
(***************************************************************************)
MaxScanLen == 7

ScanStrings == UNION {[1 .. n -> {"0", "1"}] : n \in 1 .. MaxScanLen}

\* patterns that can and that cannot overlap themselves
ScanPatterns == {<<"1">>, <<"1", "1">>, <<"0", "1">>, <<"1", "0", "1">>}

ScanBlockCounts == 1 .. 3

\* block_size = math.floor(n / num_blocks)
ScanBlockSize == Len(sequence) \div scan_num_blocks

\* block_data = bin_data[block_start:block_end] of the block i
ScanBlockData == Slice(sequence, scan_i * ScanBlockSize, scan_i * ScanBlockSize + ScanBlockSize)

\* j after an iteration of the while loop that took every step as a miss
NextOffset_ByOne(j, hit, pattern_size) == j + 1

\* j after an iteration of the while loop
NextOffset(j, hit, pattern_size) == IF hit THEN j + pattern_size ELSE j + 1

\* the call, up to the first test of the for loop
ScanInit ==
    /\ SuiteIdle
    /\ RankIdle
    /\ AggIdle
    /\ sequence \in ScanStrings
    /\ numpy_index \in {"TypeError", "truncate"}
    /\ call = NoCall
    /\ result = NoResult
    /\ calls = <<>>
    /\ scan_pattern \in ScanPatterns
    /\ scan_num_blocks \in ScanBlockCounts
    /\ scan_counts = [i \in 0 .. scan_num_blocks - 1 |-> 0]
    /\ scan_i = 0
    /\ scan_j = 0
    /\ matches = {}
    /\ examined = {}
    /\ scan_pc = "for"

\* the for loop takes the block i: block_data is sliced out of bin_data and j = 0
NextBlock ==
    /\ scan_pc = "for"
    /\ scan_i < scan_num_blocks
    /\ examined' = examined \cup
                   {p \in 0 .. Len(sequence) - 1 :
                       scan_i * ScanBlockSize <= p /\ p < scan_i * ScanBlockSize + ScanBlockSize}
    /\ scan_j' = 0
    /\ scan_pc' = "while"
    /\ UNCHANGED <<scan_pattern, scan_num_blocks, scan_counts, scan_i, matches,
                   sequence, numpy_index, call, result, calls,
                   rankVars, aggVars, suiteVars>>

\* one iteration of "while j < block_size"
ScanStep ==
    /\ scan_pc = "while"
    /\ scan_j < ScanBlockSize
    /\ LET sub_block == Slice(ScanBlockData, scan_j, scan_j + Len(scan_pattern))
           hit == sub_block = scan_pattern
       IN  /\ scan_counts' = IF hit
                             THEN [scan_counts EXCEPT ![scan_i] = @ + 1]
                             ELSE scan_counts
           /\ matches' = IF hit
                         THEN matches \cup {scan_i * ScanBlockSize + scan_j}
                         ELSE matches
           /\ scan_j' = NextOffset(scan_j, hit, Len(scan_pattern))
    /\ UNCHANGED <<scan_pattern, scan_num_blocks, scan_i, examined, scan_pc,
                   sequence, numpy_index, call, result, calls,
                   rankVars, aggVars, suiteVars>>

\* the while loop ends: the for loop goes to the next block
BlockDone ==
    /\ scan_pc = "while"
    /\ ~(scan_j < ScanBlockSize)
    /\ scan_i' = scan_i + 1
    /\ scan_pc' = "for"
    /\ UNCHANGED <<scan_pattern, scan_num_blocks, scan_counts, scan_j, matches, examined,
                   sequence, numpy_index, call, result, calls,
                   rankVars, aggVars, suiteVars>>

\* the for loop ends: the statistic is computed from pattern_counts and returned
ScanReturn ==
    /\ scan_pc = "for"
    /\ ~(scan_i < scan_num_blocks)
    /\ call' = [test |-> "non_overlapping_patterns",
                args |-> <<Len(scan_pattern), scan_num_blocks>>]
    /\ result' = NonOverlappingPValue(scan_counts, Len(scan_pattern), ScanBlockSize,
                                      scan_num_blocks)
    /\ scan_pc' = "done"
    /\ UNCHANGED <<scan_pattern, scan_num_blocks, scan_counts, scan_i, scan_j, matches,
                   examined, sequence, numpy_index, calls, rankVars, aggVars, suiteVars>>

ScanNext == NextBlock \/ ScanStep \/ BlockDone \/ ScanReturn

SpecScan == ScanInit /\ [][ScanNext]_vars

(***************************************************************************)
(* longest_runs on strings of every regime: the lengths on both sides of   *)
(* 128, 6272 and 75000.                                                    *)
(***************************************************************************)
MaxRunSeed == 6

\* n characters in blocks of m: block b starts with r0 + b ones, the rest are zeros
Ramp(n, m, r0) ==
    [p \in 1 .. n |-> IF ((p - 1) % m) < r0 + ((p - 1) \div m) THEN "1" ELSE "0"]

LongRunStrings ==
    {Repeat(seed, n) : seed \in [1 .. MaxRunSeed -> {"0", "1"}], n \in {127, 128}}
    \cup {Ramp(128, 8, 0), Ramp(135, 8, 0), Ramp(6271, 8, 0),
          Ramp(6272, 128, 0), Ramp(6272, 128, 3), Ramp(74999, 128, 0),
          Ramp(75000, 10000, 10)}

LongRunsInit ==
    /\ SuiteIdle
    /\ RankIdle
    /\ AggIdle
    /\ sequence \in LongRunStrings
    /\ numpy_index = "truncate"          \* longest_runs slices with integer bounds only
    /\ call = NoCall
    /\ result = NoResult
    /\ calls = <<>>
    /\ ScanIdle

SpecLongestRuns == LongRunsInit /\ [][CallLongestRuns]_vars

IsSentinel(r) == r.kind = "return" /\ IsSentinelValue(r.val)

IsPValue(r) == r.kind = "return" /\ InUnitInterval(r.val)

(***************************************************************************)
(* The aggregation as functions of a list of p-values: the two aggregate   *)
(* functions are called on the list and the line is reported from them,    *)
(* as run_test_suite does for each test.                                   *)
(***************************************************************************)
\* p-values in ten-thousandths: the sentinel, 0.0, 0.0001, 0.001 and 0.0011, and
\* each bucket bound i / 10 with the value just below the next one
PGrid ==
    {Lit(k, 10000) : k \in {-10000, 0, 1, 10, 11} \cup {1000 * i : i \in 0 .. 10}
                            \cup {1000 * i + 999 : i \in 0 .. 9}}

\* the values most of a list holds: failing, passing low, passing high
MajorityGrid == {Lit(1, 10000), Lit(11, 10000), Lit(5000, 10000), Lit(1, 1)}

\* k copies of a, then n - k copies of b
TwoValued(a, k, b, n) == [j \in 1 .. n |-> IF j <= k THEN a ELSE b]

AggLists ==
    {TwoValued(a, k, b, n) : a \in PGrid, b \in MajorityGrid,
                             k \in 0 .. MaxOdd, n \in 1 .. MaxN}

AggInit ==
    /\ SuiteIdle
    /\ RankIdle
    /\ TestsIdle
    /\ agg_in \in AggLists
    /\ agg_pc = "pval"
    /\ agg_pval = NoResult
    /\ agg_pass = NoValue
    /\ agg_line = NoLine

\* aggregate_pvals.append(self.get_aggregate_pval(pvals[i]))
AggregatePval ==
    /\ agg_pc = "pval"
    /\ agg_pval' = get_aggregate_pval(agg_in)
    /\ agg_pc' = IF agg_pval'.kind = "raise" THEN "raised" ELSE "pass"
    /\ UNCHANGED <<agg_in, agg_pass, agg_line, rankVars, testVars, suiteVars>>

\* aggregate_pass.append(self.get_aggregate_pass(pvals[i]))
AggregatePass ==
    /\ agg_pc = "pass"
    /\ agg_pass' = get_aggregate_pass(agg_in)
    /\ agg_pc' = "report"
    /\ UNCHANGED <<agg_in, agg_pval, agg_line, rankVars, testVars, suiteVars>>

\* one iteration of the printing loop of run_test_suite
AggregateReport ==
    /\ agg_pc = "report"
    /\ agg_line' = ReportLine(agg_in, agg_pass, agg_pval.val)
    /\ agg_pc' = "done"
    /\ UNCHANGED <<agg_in, agg_pval, agg_pass, rankVars, testVars, suiteVars>>

AggNext == AggregatePval \/ AggregatePass \/ AggregateReport

SpecAgg == AggInit /\ [][AggNext]_vars

(***************************************************************************)
(* run_test_suite(block_size, q_size) over the data sets of self.bin.  The  *)
(* samples of a data set are chosen when the outer loop reaches it.        *)
(***************************************************************************)
\* self.bin.columns
Columns == <<"JSE", "S&P500">>

\* the most samples in a data set
MaxSamples == 2

\* samples of 2, 4 and 16 bits; the second has no zero
SuiteSamples ==
    {<<"0", "1">>,
     <<"1", "1", "1", "1">>,
     <<"0", "1", "1", "0", "1", "0", "0", "1", "1", "0", "0", "1", "0", "1", "1", "1">>}

\* (block_size, q_size): small sizes, and the defaults 128 and 32 of the tests
SuiteParams == {<<1, 1>>, <<2, 2>>, <<2, 32>>, <<128, 32>>}

Datasets == UNION {[1 .. n -> SuiteSamples] : n \in 0 .. MaxSamples}

\* the pattern run_test_suite passes to non_overlapping_patterns
SuitePattern == <<"1", "1", "1", "1", "0", "0", "0", "0">>

\* the 7 calls of one iteration of the sample loop, in their order
SampleResults(str_data, block_size, q_size, float_index) ==
    <<monobit(str_data),
      block_frequency(str_data, block_size),
      independent_runs(str_data),
      longest_runs(str_data),
      matrix_rank(str_data, q_size),
      spectral(str_data, float_index),
      non_overlapping_patterns(str_data, SuitePattern, 8)>>

\* AppendResult that puts the result first
AppendResult_Prepend(list, p_val) == <<p_val>> \o list

\* pvals[t].append(p_val)
AppendResult(list, p_val) == Append(list, p_val)

\* the entry that belongs to the test after test i
AggregateAt_NextTest(list, i) == list[((i + 1) % 7) + 1]

\* aggregate_pass[i] and aggregate_pvals[i]: the entry at index i of the list
AggregateAt(list, i) == list[i + 1]

\* the index of the first outcome that is an exception, Len(outcomes) + 1 if none
FirstRaise(outcomes) ==
    LET raising == {t \in 1 .. Len(outcomes) : outcomes[t].kind = "raise"}
    IN  IF raising = {}
        THEN Len(outcomes) + 1
        ELSE CHOOSE t \in raising : \A u \in raising : t <= u

SuiteInit ==
    /\ RankIdle
    /\ AggIdle
    /\ sequence = <<>>
    /\ numpy_index \in {"TypeError", "truncate"}
    /\ call = NoCall
    /\ result = NoResult
    /\ calls = <<>>
    /\ ScanIdle
    /\ \E params \in SuiteParams :
           /\ suite_block_size = params[1]
           /\ suite_q_size = params[2]
    /\ real_data \in BOOLEAN
    /\ column = 0
    /\ samples_before = 0
    /\ binary_strings = <<>>
    /\ si = 0
    /\ test_pvals = EmptyLists
    /\ pval_strings = EmptyLists
    /\ aggregate_pvals = <<>>
    /\ aggregate_pass = <<>>
    /\ printed = <<>>
    /\ suite_pc = "next"
    /\ raised = None

\* for c in self.bin.columns: the header, the new lists, the samples of c.
\* aggregate_pvals and aggregate_pass are assigned after the sample loop and not
\* read before; they are held empty from here on.
StartDataset ==
    /\ suite_pc = "next"
    /\ column < Len(Columns)
    /\ column' = column + 1
    /\ samples_before' = samples_before + Len(binary_strings)
    /\ binary_strings' \in Datasets
    /\ test_pvals' = EmptyLists
    /\ pval_strings' = EmptyLists
    /\ aggregate_pvals' = <<>>
    /\ aggregate_pass' = <<>>
    /\ printed' = <<>>
    /\ si' = 0
    /\ suite_pc' = IF Len(binary_strings') = 0 THEN "dates" ELSE "samples"
    /\ UNCHANGED <<suite_block_size, suite_q_size, real_data, raised,
                   rankVars, testVars, aggVars>>

\* one iteration of the sample loop: the 7 tests on sample si, each result
\* appended to the list of its test until a call raises
RunSample ==
    /\ suite_pc = "samples"
    /\ \E outcomes \in {SampleResults(binary_strings[si + 1], suite_block_size,
                                        suite_q_size, numpy_index)} :
       LET k == FirstRaise(outcomes)
           last == si + 1 = Len(binary_strings)
       IN  /\ test_pvals' =
                  [t \in 0 .. 7 |-> IF t + 1 < k
                                     THEN AppendResult(test_pvals[t], outcomes[t + 1].val)
                                     ELSE test_pvals[t]]
           /\ pval_strings' =
                  [t \in 0 .. 7 |-> IF t + 1 < k
                                     THEN Append(pval_strings[t],
                                                 get_string(outcomes[t + 1].val))
                                     ELSE pval_strings[t]]
           /\ raised' = IF k <= 7 THEN outcomes[k].val ELSE None
           /\ suite_pc' = IF k <= 7 THEN "raised"
                          ELSE IF last THEN "aggregate" ELSE "samples"
           /\ si' = IF k <= 7 THEN si ELSE IF last THEN 0 ELSE si + 1
    /\ UNCHANGED <<suite_block_size, suite_q_size, real_data, column, samples_before,
                   binary_strings, aggregate_pvals, aggregate_pass, printed,
                   rankVars, testVars, aggVars>>

\* one iteration of the aggregate loop: both aggregates of each of the 7 lists
\* are appended, until get_aggregate_pval raises
Aggregate ==
    /\ suite_pc = "aggregate"
    /\ \E outcomes \in {[t \in 1 .. 7 |-> get_aggregate_pval(test_pvals[t - 1])]} :
       LET k == FirstRaise(outcomes)
           last == si + 1 = Len(binary_strings)
       IN  /\ aggregate_pvals' = aggregate_pvals \o [t \in 1 .. k - 1 |-> outcomes[t].val]
           /\ aggregate_pass' =
                  aggregate_pass \o [t \in 1 .. k - 1 |-> get_aggregate_pass(test_pvals[t - 1])]
           /\ raised' = IF k <= 7 THEN outcomes[k].val ELSE None
           /\ suite_pc' = IF k <= 7 THEN "raised"
                          ELSE IF last THEN "dates" ELSE "aggregate"
           /\ si' = IF k <= 7 THEN si ELSE IF last THEN 0 ELSE si + 1
    /\ UNCHANGED <<suite_block_size, suite_q_size, real_data, column, samples_before,
                   binary_strings, test_pvals, pval_strings, printed,
                   rankVars, testVars, aggVars>>

\* self.print_dates(len(binary_strings)): with real_data it divides by the number
\* of samples
PrintDates ==
    /\ suite_pc = "dates"
    /\ IF real_data /\ Len(binary_strings) = 0
       THEN suite_pc' = "raised" /\ raised' = "ZeroDivisionError"
       ELSE suite_pc' = "report" /\ raised' = None
    /\ UNCHANGED <<suite_block_size, suite_q_size, real_data, column, samples_before,
                   binary_strings, si, test_pvals, pval_strings, aggregate_pvals,
                   aggregate_pass, printed, rankVars, testVars, aggVars>>

\* one iteration of the printing loop: the line of test si
Report ==
    /\ suite_pc = "report"
    /\ IF si >= Len(aggregate_pass)
       THEN /\ suite_pc' = "raised"
            /\ raised' = "IndexError"                \* aggregate_pass[i]
            /\ UNCHANGED <<si, printed>>
       ELSE /\ printed' = Append(printed,
                                 [test    |-> si,
                                  line    |-> ReportLine(test_pvals[si],
                                                         AggregateAt(aggregate_pass, si),
                                                         AggregateAt(aggregate_pvals, si)),
                                  samples |-> pval_strings[si]])
            /\ si' = si + 1
            /\ suite_pc' = IF si + 1 = 7 THEN "next" ELSE "report"
            /\ raised' = None
    /\ UNCHANGED <<suite_block_size, suite_q_size, real_data, column, samples_before,
                   binary_strings, test_pvals, pval_strings, aggregate_pvals,
                   aggregate_pass, rankVars, testVars, aggVars>>

SuiteNext == StartDataset \/ RunSample \/ Aggregate \/ PrintDates \/ Report

SpecSuite == SuiteInit /\ [][SuiteNext]_vars

(***************************************************************************)
(* Claims about the tests as functions (checked under SpecTests).          *)
(***************************************************************************)
\* the string is long enough for the longest_runs test and for one block of the
\* block size, block count and pattern of the call
SufficientLength ==
    /\ Len(sequence) >= 128
    /\ call.test \in {"block_frequency", "matrix_rank"} => Len(sequence) >= call.args[1]
    /\ call.test = "non_overlapping_patterns" =>
           Len(sequence) \div call.args[2] >= call.args[1]
    /\ call.test = "overlapping_patterns" => Len(sequence) >= call.args[2]

\* C1: every test, called on a valid binary sequence of sufficient length,
\* returns a value in [0, 1] or exactly -1.0, and never raises.
C1_ResultInRange ==
    (result.kind # "none" /\ IsBinary(sequence) /\ SufficientLength)
        => (IsPValue(result) \/ IsSentinel(result))

\* C3: longest_runs returns the sentinel -1.0 exactly when the sequence has fewer
\* than 128 bits, matrix_rank with dimension q exactly when floor(n / q^2) = 0; in
\* both cases the call returns (it does not raise).
C3_SkipSentinel ==
    /\ call.test = "longest_runs" =>
           /\ result.kind = "return"
           /\ IsSentinel(result) <=> Len(sequence) < 128
    /\ call.test = "matrix_rank" =>
           /\ result.kind = "return"
           /\ IsSentinel(result) <=> Len(sequence) \div (call.args[1] * call.args[1]) = 0

C3_Witness ==
    call.test = "longest_runs" /\ Len(sequence) = 127 /\ IsSentinel(result)

\* the call divides by a zero block count, block length or variance
ArithmeticEdgeCase ==
    \/ call.test = "block_frequency" /\ Len(sequence) \div call.args[1] = 0
    \/ call.test = "non_overlapping_patterns" /\ Len(sequence) \div call.args[2] = 0
    \/ call.test = "overlapping_patterns" /\ Len(sequence) \div call.args[2] = 0
    \/ /\ call.test = "independent_runs"
       /\ Count(sequence, "1") \in {0, Len(sequence)}
       /\ ~FailsBalance(Len(sequence), Count(sequence, "1"))

\* C9: a test whose number of blocks, block length or variance is zero returns
\* the sentinel -1.0; it neither raises nor returns a non-number.
C9_EdgeCasesReturnSentinel ==
    (IsBinary(sequence) /\ ArithmeticEdgeCase) => IsSentinel(result)

\* C10: a call on a sequence with a character other than '0' and '1' raises
\* InvalidInputError; no test returns a value for such a sequence.
C10_InvalidInputRejected ==
    (result.kind # "none" /\ ~IsBinary(sequence))
        => (result.kind = "raise" /\ result.val = "InvalidInputError")

(***************************************************************************)
(* Claims about single tests (checked under SpecTests).                    *)
(***************************************************************************)
\* the number of positions i in 1 .. n-1 where bit i differs from bit i-1
BitChanges ==
    Cardinality({i \in 2 .. Len(sequence) : sequence[i] # sequence[i - 1]})

\* C11: independent_runs on n >= 1 bits returns exactly 0.0 if and only if
\* (2 * ones - n)^2 > 16 * n; when it returns otherwise, its statistic is that of
\* V = 1 + the number of positions where a bit differs from the bit before.
C11_RunsZeroIffUnbalanced ==
    (call.test = "independent_runs" /\ IsBinary(sequence) /\ Len(sequence) >= 1) =>
        LET n    == Len(sequence)
            ones == Count(sequence, "1")
            d    == 2 * ones - n
        IN  /\ result = Return(Lit(0, 1)) <=> d * d > 16 * n
            /\ (result.kind = "return" /\ result.val.fn = "erfc") =>
                   /\ result.val.x.P = Abs((1 + BitChanges) * n - 2 * ones * (n - ones))
                   /\ result.val.x.Q = 2 * ones * (n - ones)
                   /\ result.val.x.n = n

\* every '0' replaced by '1' and every '1' by '0'
Complement(s) == [i \in 1 .. Len(s) |-> IF s[i] = "0" THEN "1" ELSE "0"]

\* C12: monobit gives a binary sequence the result it gives the sequence with
\* every bit complemented.
C12_MonobitSymmetry ==
    (call.test = "monobit" /\ IsBinary(sequence)) =>
        /\ result.kind = "return"
        /\ result = monobit(Complement(sequence))

\* a sequence with more zeros than ones
C12_Witness ==
    /\ call.test = "monobit"
    /\ IsBinary(sequence)
    /\ Count(sequence, "1") < Count(sequence, "0")
    /\ result.kind = "return"
    /\ result.val.x.num > 0

\* a call of block_frequency with block_size = 1 on a binary sequence
BlockSizeOne ==
    /\ call.test = "block_frequency"
    /\ call.args[1] = 1
    /\ IsBinary(sequence)
    /\ Len(sequence) >= 1

C18_SpectralKeepsHalf ==
    (call.test = "spectral" /\ IsBinary(sequence) /\ Len(sequence) >= 1) =>
        /\ result.kind = "return"
        /\ result.val.x.kept = Len(sequence) \div 2

(***************************************************************************)
(* Claims about several calls on one string (checked under SpecCalls)      *)
(***************************************************************************)
SameInvocation(i, j) == calls[i].test = calls[j].test /\ calls[i].args = calls[j].args

OccursAt(p) == Slice(sequence, p, p + Len(scan_pattern)) = scan_pattern

\* the block a position of bin_data lies in
BlockOf(p) == p \div ScanBlockSize

\* the matches of a scan of block from offset j: a match counts and moves on by the
\* length of the pattern, anything else moves on by 1
RECURSIVE GreedyMatches(_, _, _)
GreedyMatches(block, pattern, j) ==
    IF j >= Len(block)
    THEN 0
    ELSE IF /\ j + Len(pattern) <= Len(block)
            /\ \A d \in 1 .. Len(pattern) : block[j + d] = pattern[d]
    THEN 1 + GreedyMatches(block, pattern, j + Len(pattern))
    ELSE GreedyMatches(block, pattern, j + 1)

\* C16: the count recorded for a block is the number of matches of a left-to-right
\* scan of that block alone from offset 0 (a match adds one and advances by the
\* pattern length, anything else advances by 1); counted occurrences do not overlap,
\* none extends past the end of its block, and no bit at or beyond
\* num_blocks * floor(n / num_blocks) is read.
C16_NonOverlappingScan ==
    /\ \A p \in matches : OccursAt(p) /\ p + Len(scan_pattern) <= (BlockOf(p) + 1) * ScanBlockSize
    /\ \A p, r \in matches : p < r => p + Len(scan_pattern) <= r
    /\ \A p \in examined : p < scan_num_blocks * ScanBlockSize
    /\ \A b \in 0 .. scan_num_blocks - 1 :
           scan_counts[b] = Cardinality({p \in matches : BlockOf(p) = b})
    /\ \A b \in 0 .. scan_i - 1 :
           scan_counts[b] = GreedyMatches(Slice(sequence, b * ScanBlockSize,
                                                b * ScanBlockSize + ScanBlockSize),
                                          scan_pattern, 0)
    /\ scan_pc = "done" =>
           result = non_overlapping_patterns(sequence, scan_pattern, scan_num_blocks)

\* a finished scan that counted a match, passed over an occurrence overlapping a
\* counted one, left out an occurrence running over the end of a block, and had
\* bits left after the last block
C16_Witness ==
    /\ scan_pc = "done"
    /\ matches # {}
    /\ Len(sequence) % scan_num_blocks # 0
    /\ \E p \in 0 .. Len(sequence) - 1 :
           /\ OccursAt(p) /\ p \notin matches
           /\ \E r \in matches : r < p /\ p < r + Len(scan_pattern)
    /\ \E p \in 0 .. scan_num_blocks * ScanBlockSize - 1 :
           OccursAt(p) /\ p + Len(scan_pattern) > (BlockOf(p) + 1) * ScanBlockSize

(***************************************************************************)
(* Claims about the categories of longest_runs (checked under              *)
(* SpecLongestRuns).                                                       *)
(***************************************************************************)
\* the regime by length: k, the block length M, and the boundaries v[0] and v[k]
RegimeOf(n) ==
    IF n < 6272 THEN [k |-> 3, M |-> 8, first |-> 1, last |-> 4]
    ELSE IF n < 75000 THEN [k |-> 5, M |-> 128, first |-> 4, last |-> 9]
    ELSE [k |-> 6, M |-> 10000, first |-> 10, last |-> 16]

\* some r consecutive characters of the block b (of M characters) are all '1'
HasRunOfOnes(b, M, r) ==
    \E start \in b * M + 1 .. (b + 1) * M - r + 1 :
        \A d \in 0 .. r - 1 : sequence[start + d] = "1"

\* the category of block b: its longest run of ones, held between first and last,
\* counted from first
CategoryOf(b, g) ==
    LET capped == CHOOSE r \in g.first .. g.last :
                      /\ r > g.first => HasRunOfOnes(b, g.M, r)
                      /\ r < g.last => ~HasRunOfOnes(b, g.M, r + 1)
    IN  capped - g.first

LongestRunsRan == call.test = "longest_runs" /\ Len(sequence) >= 128

\* C17: for n >= 128, with the regime selected by the length, every one of the
\* floor(n / M) blocks is counted in exactly one of the k + 1 categories: 0 when its
\* longest run of ones is <= v[0], j when it is v[j], k when it is >= v[k]; the
\* frequencies sum to floor(n / M).
C17_OneCategoryPerBlock ==
    LongestRunsRan =>
        LET g          == RegimeOf(Len(sequence))
            num_blocks == Len(sequence) \div g.M
            stat       == result.val.x
        IN  /\ result.kind = "return" /\ result.val.fn = "gammaincc" /\ result.val.a2 = g.k
            /\ stat.num_blocks = num_blocks
            /\ DOMAIN stat.frequencies = 0 .. g.k
            /\ \E category \in {[b \in 0 .. num_blocks - 1 |-> CategoryOf(b, g)]} :
                   \A c \in 0 .. g.k :
                       stat.frequencies[c] =
                           Cardinality({b \in 0 .. num_blocks - 1 : category[b] = c})
            /\ SumRange(stat.frequencies, 0, g.k) = num_blocks

\* 135 bits: 16 blocks of 8 and 7 bits left over, with blocks in each of the four
\* categories, two of them below v[0] and above v[k]
C17_Witness ==
    /\ LongestRunsRan
    /\ Len(sequence) = 135
    /\ result.kind = "return"
    /\ result.val.x.num_blocks = 16
    /\ \A c \in 0 .. 3 : result.val.x.frequencies[c] > 0
    /\ ~HasRunOfOnes(0, 8, 1)
    /\ HasRunOfOnes(15, 8, 5)

(***************************************************************************)
(* Claims about the aggregation (checked under SpecAgg).  The lists of     *)
(* SpecAgg hold exact floats p = num / den.                                *)
(***************************************************************************)
\* the entries of agg_in that exceed 0.001
PassingEntries == {j \in 1 .. Len(agg_in) : 1000 * agg_in[j].x.num > agg_in[j].x.den}

\* C5: for a list of N >= 1 p-values without the sentinel the line says PASS if
\* 100 * (entries above 0.001) >= 96 * N and FAIL otherwise; every line says
\* exactly one of PASS, FAIL, SKIP.
C5_PassIffFraction ==
    agg_pc = "done" =>
        /\ agg_line.pass_string \in {"PASS!", "FAIL!", "SKIP!"}
        /\ ~AnySkipped(agg_in) =>
               /\ agg_line.pass_string \in {"PASS!", "FAIL!"}
               /\ agg_line.pass_string = "PASS!"
                      <=> 100 * Cardinality(PassingEntries) >= 96 * Len(agg_in)

\* 24 of 25 samples pass: the fraction is 0.96 exactly
C5_Witness ==
    /\ agg_pc = "done"
    /\ Len(agg_in) = 25
    /\ Cardinality(PassingEntries) = 24
    /\ ~AnySkipped(agg_in)
    /\ agg_line.pass_string = "PASS!"

\* C6: get_aggregate_pass returns (entries > 0.001) / (entries); entries equal to
\* 0.001 or below, the sentinel included, do not count; the result is in [0, 1],
\* and 0.0 for a list of 0.0001 only.
C6_PassFraction ==
    agg_pc \in {"report", "done"} =>
        /\ agg_pass.fn = "lit"
        /\ agg_pass.x.num * Len(agg_in) = Cardinality(PassingEntries) * agg_pass.x.den
        /\ InUnitInterval(agg_pass)
        /\ (\A j \in 1 .. Len(agg_in) : agg_in[j] = Lit(1, 10000)) => agg_pass.x.num = 0

\* a list with an entry equal to 0.001 (or the sentinel) next to passing entries
C6_Witness ==
    /\ agg_pc = "done"
    /\ \E j \in 1 .. Len(agg_in) : agg_in[j] \in {Lit(1, 1000), Sentinel}
    /\ Cardinality(PassingEntries) = Len(agg_in) - 1
    /\ agg_pass = Lit(Len(agg_in) - 1, Len(agg_in))

\* the entries p of agg_in with b / 10 <= p < (b + 1) / 10, and p = 1.0 for b = 9
InBucket(b) ==
    {j \in 1 .. Len(agg_in) :
        LET num == agg_in[j].x.num
            den == agg_in[j].x.den
        IN  \/ b * den <= 10 * num /\ 10 * num < (b + 1) * den
            \/ b = 9 /\ num = den}

AllInUnitInterval == \A j \in 1 .. Len(agg_in) : InUnitInterval(agg_in[j])

\* C7: get_aggregate_pval counts every p in [0, 1] in exactly one of 10 buckets,
\* [i/10, (i+1)/10) in bucket i and 1.0 in bucket 9; the counts sum to N, and the
\* value returned is that of the chi-squared sum of (count - N/10)^2 / (N/10).
C7_Buckets ==
    (agg_pc \in {"pass", "report", "done"} /\ AllInUnitInterval) =>
        /\ \A b \in 0 .. 9 : BinCounts(agg_in)[b] = Cardinality(InBucket(b))
        /\ SumRange([b \in 0 .. 9 |-> BinCounts(agg_in)[b]], 0, 9) = Len(agg_in)
        /\ agg_pval.kind = "return"
        /\ agg_pval.val.fn = "gammaincc"
        /\ agg_pval.val.a2 = 9
        /\ agg_pval.val.x =
               Rat(SumRange([b \in 0 .. 9 |->
                                (10 * Cardinality(InBucket(b)) - Len(agg_in))
                              * (10 * Cardinality(InBucket(b)) - Len(agg_in))], 0, 9),
                   20 * Len(agg_in))

\* a list with an entry 1.0 and an entry just below a bucket bound
C7_Witness ==
    /\ agg_pc = "done"
    /\ AllInUnitInterval
    /\ \E j \in 1 .. Len(agg_in) : agg_in[j] = Lit(1, 1)
    /\ \E j \in 1 .. Len(agg_in) : agg_in[j] = Lit(2999, 10000)
    /\ BinCounts(agg_in)[9] >= 1
    /\ BinCounts(agg_in)[2] >= 1

(***************************************************************************)
(* Claims about run_test_suite (checked under SpecSuite).                  *)
(***************************************************************************)
\* the samples of the current data set whose results the lists must hold
SamplesRun ==
    IF suite_pc = "samples" THEN si ELSE Len(binary_strings)

\* C8: while and after a data set of N samples is processed, the list of each of
\* the 7 tests holds one entry per sample run (N after the sample loop), entry j
\* being the result of that test on sample j; the lists hold nothing of the data
\* sets processed before.
C8_ResultListsPerSample ==
    suite_pc \in {"samples", "aggregate", "dates", "report", "next"} =>
        \A t \in 0 .. 6 :
            /\ Len(test_pvals[t]) = SamplesRun
            /\ \A j \in 1 .. SamplesRun :
                   Return(test_pvals[t][j])
                       = SampleResults(binary_strings[j], suite_block_size,
                                       suite_q_size, numpy_index)[t + 1]

\* a second data set of two different samples, processed after samples of a first
C8_Witness ==
    /\ suite_pc = "dates"
    /\ column = 2
    /\ samples_before >= 1
    /\ Len(binary_strings) = 2
    /\ binary_strings[1] # binary_strings[2]
    /\ Len(test_pvals[0]) = 2
    /\ test_pvals[0][1] # test_pvals[0][2]
    /\ raised = None

\* C4: a list that holds the sentinel is reported as SKIP with p=SKIPPED, also
\* where its pass fraction and its aggregate p-value would have made it PASS or FAIL.
C4_SkipOverrides ==
    (agg_pc = "done" /\ AnySkipped(agg_in)) =>
        /\ agg_line.pass_string = "SKIP!"
        /\ agg_line.pval_string = "p=SKIPPED"
        /\ agg_line.shown = NoValue

\* one sentinel among 25 results, the other 24 above 0.001: the fraction is 0.96
C4_Witness ==
    /\ agg_pc = "done"
    /\ Len(agg_in) = 25
    /\ Cardinality({j \in 1 .. 25 : IsSentinelValue(agg_in[j])}) = 1
    /\ AtLeast(agg_pass, PassNum, PassDen)
    /\ agg_line.pass_string = "SKIP!"

\* the data set being processed has samples and its report has begun
Reporting == Len(binary_strings) >= 1 /\ (suite_pc = "report" \/ printed # <<>>)

\* C19: for a data set of N >= 1 samples, the line reported for test i shows the
\* verdict and the aggregate p-value of the result list of test i over the N
\* samples, and of no other list; the aggregates were appended once per sample,
\* 7 * N entries, entry 7 * r + i being the aggregate of list i in every round r.
C19_LineFromOwnList ==
    Reporting =>
        \E own \in {[i \in 0 .. 6 |-> [pval |-> get_aggregate_pval(test_pvals[i]),
                                       pass |-> get_aggregate_pass(test_pvals[i])]]} :
            /\ Len(aggregate_pvals) = 7 * Len(binary_strings)
            /\ Len(aggregate_pass) = 7 * Len(binary_strings)
            /\ \A r \in 0 .. Len(binary_strings) - 1, i \in 0 .. 6 :
                   /\ Return(aggregate_pvals[7 * r + i + 1]) = own[i].pval
                   /\ aggregate_pass[7 * r + i + 1] = own[i].pass
            /\ \A l \in 1 .. Len(printed) :
                   /\ printed[l].test = l - 1
                   /\ Len(test_pvals[l - 1]) = Len(binary_strings)
                   /\ printed[l].line =
                          ReportLine(test_pvals[l - 1], own[l - 1].pass, own[l - 1].pval.val)

\* all 7 lines of a data set of two samples are reported, out of 14 aggregate
\* entries, and neighbouring tests have different lines
C19_Witness ==
    /\ Len(binary_strings) = 2
    /\ Len(printed) = 7
    /\ Len(aggregate_pvals) = 14
    /\ printed[1].line # printed[2].line
    /\ printed[2].line # printed[3].line
    /\ printed[1].line.pass_string # "SKIP!"

(***************************************************************************)
(* The rank over GF(2), defined without elimination: the rows span a       *)
(* subspace of 2^rank vectors.                                             *)
(***************************************************************************)
RECURSIVE XorRows(_, _, _)
XorRows(mat, S, width) ==
    IF S = {}
    THEN [c \in 1 .. width |-> 0]
    ELSE LET r == CHOOSE x \in S : TRUE
             rest == XorRows(mat, S \ {r}, width)
         IN  [c \in 1 .. width |-> (mat[r][c] + rest[c]) % 2]

RowSpan(mat) == {XorRows(mat, S, Len(mat[1])) : S \in SUBSET (1 .. Len(mat))}

RECURSIVE Log2(_)
Log2(k) == IF k <= 1 THEN 0 ELSE 1 + Log2(k \div 2)

GF2Rank(mat) == Log2(Cardinality(RowSpan(mat)))

\* C2: compute_rank returns the GF(2) rank of the matrix it was constructed with;
\* the 6x6 matrix of test_binary_matrix yields 4.
C2_RankIsGF2Rank ==
    bpc = "done" =>
        /\ rank = GF2Rank(A0)
        /\ rank = compute_rank(A0, bmM, bmQ).rank
        /\ (A0 = TestMatrix => rank = 4)

C2_Witness == bpc = "done" /\ A0 = TestMatrix /\ rank = 4

\* C15: BinaryMatrix works on a copy of the matrix: when compute_rank has returned,
\* the array the caller supplied holds the entries it held when it was supplied.
C15_CallerMatrixUnchanged == bpc = "done" => A = A0

============================================================================
